---- MODULE Spec2Model ----
(***************************************************************************)
(* SAX-VSM classifier (pyts/classification/saxvsm.py).                     *)
(*                                                                         *)
(* One SAXVSM instance is modelled: its nine constructor parameters, the   *)
(* attributes that fit() writes on it, and the outcome of the last call.   *)
(*                                                                         *)
(* Conventions                                                             *)
(*   - a character is its code point (97 = 'a', 65 = 'A', 32 = ' '), a     *)
(*     string is a sequence of characters;                                 *)
(*   - a time series is a sequence of integers, a matrix a sequence of     *)
(*     series of one length;                                               *)
(*   - a class label l stands for the number l/2, so that odd l is a       *)
(*     non-integral float label (0.5, 1.5, ...);                           *)
(*   - None is the empty sequence NoneValue;                               *)
(*   - tf-idf weights are fixed-point numbers in tenths, similarity scores *)
(*     are squared cosines in thousandths (counts and weights are never    *)
(*     negative, so the order of the squares is the order of the cosines). *)
(***************************************************************************)
EXTENDS Integers, Sequences, FiniteSets, TLC

VARIABLES
    params,       \* the constructor parameters (self.n_bins, self.strategy, ...)
    has,          \* the names of the fitted attributes that are set on the instance
    classes_,     \* self.classes_: the sorted class labels
    tfidf_,       \* self.tfidf_: one row of weights per class
    vocabulary_,  \* self.vocabulary_: index -> term
    idf_,         \* self.idf_: the idf vector, or None
    _tfidf,       \* self._tfidf: the fitted vectorizer (its term -> index mapping)
    _sax,         \* self._sax: the discretizer built by fit
    _bow,         \* self._bow: the word extractor built by fit
    lifecycle,    \* history: "new", "failed" (fit called, none succeeded), "fitted"
    call          \* the last call on the instance and its outcome

vars == <<params, has, classes_, tfidf_, vocabulary_, idf_, _tfidf, _sax, _bow,
          lifecycle, call>>

fitted_state == <<has, classes_, tfidf_, vocabulary_, idf_, _tfidf, _sax, _bow>>

-----------------------------------------------------------------------------
(* Generic helpers *)

NoneValue == <<>>

\* The sequence s itself, held as an enumerated tuple (a function written
\* [i \in 1..n |-> e] is otherwise re-evaluated at every use).
Strict(s) == s \o <<>>

\* The function f itself, held as an enumerated function.
StrictFcn(f) == f @@ <<>>

Range(s) == {s[i] : i \in 1..Len(s)}

RECURSIVE SumSeq(_)
SumSeq(s) == IF s = <<>> THEN 0 ELSE Head(s) + SumSeq(Tail(s))

Min(S) == CHOOSE x \in S : \A y \in S : x <= y

\* Python string order: lexicographic on code points.
RECURSIVE StrLess(_, _)
StrLess(a, b) ==
    IF b = <<>> THEN FALSE
    ELSE IF a = <<>> THEN TRUE
    ELSE IF Head(a) # Head(b) THEN Head(a) < Head(b)
    ELSE StrLess(Tail(a), Tail(b))

RECURSIVE SortedStrings(_)
SortedStrings(S) ==
    IF S = {} THEN <<>>
    ELSE LET m == CHOOSE x \in S : \A y \in S \ {x} : StrLess(x, y)
         IN  <<m>> \o SortedStrings(S \ {m})

RECURSIVE SortedInts(_)
SortedInts(S) ==
    IF S = {} THEN <<>>
    ELSE LET m == Min(S) IN <<m>> \o SortedInts(S \ {m})

\* ' '.join(parts)
RECURSIVE Join(_)
Join(parts) ==
    IF parts = <<>> THEN <<>>
    ELSE IF Len(parts) = 1 THEN parts[1]
    ELSE parts[1] \o <<32>> \o Join(Tail(parts))

-----------------------------------------------------------------------------
(* sklearn.utils.validation.check_X_y / check_classification_targets *)

\* check_X_y: X and y must have the same number of samples (and X at least one).
CheckXy(X, y) == Len(X) >= 1 /\ Len(X) = Len(y)

\* A target check that also wants two classes.
CheckClassificationTargetsTwoClasses(y) ==
    /\ \A i \in 1..Len(y) : y[i] % 2 = 0
    /\ Cardinality(Range(y)) >= 2

\* check_classification_targets: type_of_target(y) is 'continuous' when y holds
\* a non-integral float; 'binary' / 'multiclass' otherwise, also for ONE label.
CheckClassificationTargets(y) == \A i \in 1..Len(y) : y[i] % 2 = 0

\* _check_params without the upper bound of n_bins.
CheckParamsNoUpperBound(p) ==
    IF ~ p.n_bins.isint THEN "TypeError"
    ELSE IF ~ (2 <= p.n_bins.val) THEN "ValueError"
    ELSE "ok"

\* SAXVSM._check_params
CheckParams(p) ==
    IF ~ p.n_bins.isint THEN "TypeError"
    ELSE IF ~ (2 <= p.n_bins.val /\ p.n_bins.val <= 26) THEN "ValueError"
    ELSE "ok"

\* LabelEncoder().fit_transform(y): classes_ is the sorted distinct labels,
\* y_ind the index (from 0) of each label in classes_.
LabelClasses(y) == SortedInts(Range(y))

LabelIndex(classes, l) == (CHOOSE i \in 1..Len(classes) : classes[i] = l) - 1

-----------------------------------------------------------------------------
(* SymbolicAggregateApproximation (pyts.approximation) *)

Strategies == {"uniform", "quantile", "normal"}

SaxParamsOk(sax) ==
    /\ sax.n_bins.isint
    /\ 2 <= sax.n_bins.val /\ sax.n_bins.val <= 26
    /\ sax.strategy \in Strategies
    /\ (sax.alphabet = NoneValue \/ Len(sax.alphabet) = sax.n_bins.val)

\* Standard normal cdf of an integer, in thousandths.
NormCdf(v) ==
    IF v <= -3 THEN 1
    ELSE IF v = -2 THEN 23
    ELSE IF v = -1 THEN 159
    ELSE IF v = 0 THEN 500
    ELSE IF v = 1 THEN 841
    ELSE IF v = 2 THEN 977
    ELSE 999

\* The sample in increasing order.
RECURSIVE Insert(_, _)
Insert(x, s) ==
    IF s = <<>> THEN <<x>>
    ELSE IF x <= Head(s) THEN <<x>> \o s
    ELSE <<Head(s)>> \o Insert(x, Tail(s))

RECURSIVE SortedSample(_)
SortedSample(s) == IF s = <<>> THEN <<>> ELSE Insert(Head(s), SortedSample(Tail(s)))

\* The n-1 bin edges of one sample, each multiplied by n to stay in the integers.
\*   uniform : lo + k*(hi-lo)/n
\*   quantile: the percentile 100*k/n of the sample, linearly interpolated
BinEdges(strategy, series, n) ==
    LET ord == SortedSample(series)
        L   == Len(series)
    IN  IF strategy = "uniform"
        THEN Strict([k \in 1..(n - 1) |-> n * ord[1] + k * (ord[L] - ord[1])])
        ELSE Strict([k \in 1..(n - 1) |->
                LET pos  == (k * (L - 1)) \div n
                    frac == (k * (L - 1)) % n
                    a    == ord[pos + 1]
                    b    == IF pos + 2 <= L THEN ord[pos + 2] ELSE a
                IN  n * a + frac * (b - a)])

\* The bin of v: the number of edges below it (a value equal to an edge falls
\* in the lower bin).  The edges of 'normal' are norm.ppf(k/n), and
\* norm.ppf(k/n) < v  iff  k/n < cdf(v).
Digitize(strategy, edges, n, v) ==
    IF strategy = "normal"
    THEN Cardinality({k \in 1..(n - 1) : 1000 * k < n * NormCdf(v)})
    ELSE Cardinality({k \in 1..(n - 1) : edges[k] < n * v})

Symbol(sax, bin) ==
    IF sax.alphabet = NoneValue THEN 97 + bin
    ELSE sax.alphabet[bin + 1]

\* sax.transform(X): one string per sample, one character per timestamp.
SaxSample(sax, series) ==
    LET edges == BinEdges(sax.strategy, series, sax.n_bins.val)
    IN  Strict([t \in 1..Len(series) |->
            Symbol(sax, Digitize(sax.strategy, edges, sax.n_bins.val, series[t]))])

SaxTransform(sax, X) == Strict([i \in 1..Len(X) |-> SaxSample(sax, X[i])])

-----------------------------------------------------------------------------
(* BagOfWords (pyts.bag_of_words) *)

\* The words of one string: windows of window_size every window_step.
Windows(bow, s) ==
    IF bow.window_size > Len(s) THEN <<>>
    ELSE Strict([j \in 1..(((Len(s) - bow.window_size) \div bow.window_step) + 1) |->
            SubSeq(s, (j - 1) * bow.window_step + 1,
                      (j - 1) * bow.window_step + bow.window_size)])

\* Numerosity reduction: drop a word equal to the word just before it.
RECURSIVE Reduce(_)
Reduce(ws) ==
    IF Len(ws) <= 1 THEN ws
    ELSE IF ws[1] = ws[2] THEN Reduce(Tail(ws))
    ELSE <<ws[1]>> \o Reduce(Tail(ws))

Words(bow, s) ==
    IF bow.numerosity_reduction THEN Reduce(Windows(bow, s)) ELSE Windows(bow, s)

\* bow.transform(X_sax): one document (words joined by a space) per sample.
BowTransform(bow, X_sax) ==
    Strict([i \in 1..Len(X_sax) |-> Join(Words(bow, X_sax[i]))])

-----------------------------------------------------------------------------
(* sklearn.feature_extraction.text: CountVectorizer / TfidfVectorizer with   *)
(* the default analyzer (lowercase=True, token_pattern=r"(?u)\b\w\w+\b")     *)

IsWordChar(c) ==
    \/ (48 <= c /\ c <= 57)
    \/ (65 <= c /\ c <= 90)
    \/ c = 95
    \/ (97 <= c /\ c <= 122)

\* str.lower()
Lower(s) ==
    Strict([i \in 1..Len(s) |-> IF 65 <= s[i] /\ s[i] <= 90 THEN s[i] + 32 ELSE s[i]])

\* The maximal runs of word characters of s, in order; cur is the run being read.
RECURSIVE Runs(_, _)
Runs(s, cur) ==
    IF s = <<>> THEN (IF cur = <<>> THEN <<>> ELSE <<cur>>)
    ELSE IF IsWordChar(Head(s)) THEN Runs(Tail(s), Append(cur, Head(s)))
    ELSE (IF cur = <<>> THEN <<>> ELSE <<cur>>) \o Runs(Tail(s), <<>>)

LongEnough(w) == Len(w) >= 2

\* The analyzer: lowercase, then every match of \b\w\w+\b.
Tokens(doc) == SelectSeq(Runs(Lower(doc), <<>>), LongEnough)

\* The words of a document as the word extractor wrote them (split on spaces).
RECURSIVE SplitWords(_, _)
SplitWords(s, cur) ==
    IF s = <<>> THEN (IF cur = <<>> THEN <<>> ELSE <<cur>>)
    ELSE IF Head(s) # 32 THEN SplitWords(Tail(s), Append(cur, Head(s)))
    ELSE (IF cur = <<>> THEN <<>> ELSE <<cur>>) \o SplitWords(Tail(s), <<>>)

Count(tokens, term) == Cardinality({i \in 1..Len(tokens) : tokens[i] = term})

\* Natural logarithm in tenths, of 1..16.
LnTable == <<0, 7, 11, 14, 16, 18, 19, 21, 22, 23, 24, 25, 26, 26, 27, 28>>

Ln(n) == LnTable[n]

\* A _count_vocab that gives every unseen token the next index, whether the
\* vocabulary is fixed or not.
CountVocabGrowing(docs, fixed_vocab, vocabulary) ==
    LET seen == UNION {Range(Tokens(docs[d])) : d \in 1..Len(docs)}
        new  == SortedStrings(seen \ DOMAIN vocabulary)
        n    == Cardinality(DOMAIN vocabulary)
    IN  StrictFcn([t \in DOMAIN vocabulary \cup Range(new) |->
                     IF t \in DOMAIN vocabulary THEN vocabulary[t]
                     ELSE n + (CHOOSE i \in 1..Len(new) : new[i] = t) - 1])

\* _count_vocab: the term -> index mapping.  With a fixed vocabulary the given
\* mapping is used as it is; otherwise every token seen gets an index, in
\* sorted order of the terms.
CountVocab(docs, fixed_vocab, vocabulary) ==
    IF fixed_vocab THEN vocabulary
    ELSE LET terms == SortedStrings(UNION {Range(Tokens(docs[d])) : d \in 1..Len(docs)})
         IN  StrictFcn([t \in Range(terms) |->
                          (CHOOSE i \in 1..Len(terms) : terms[i] = t) - 1])

\* The term-count matrix of docs over a vocabulary (rows: docs, columns: index+1).
CountRow(tokens, vocabulary) ==
    Strict([j \in 1..Cardinality(DOMAIN vocabulary) |->
              Count(tokens, CHOOSE t \in DOMAIN vocabulary : vocabulary[t] = j - 1)])

CountMatrix(docs, vocabulary) ==
    Strict([d \in 1..Len(docs) |-> CountRow(Tokens(docs[d]), vocabulary)])

\* TfidfTransformer.fit: the idf vector, in tenths.
Idf(counts, n_terms, smooth_idf) ==
    LET n  == Len(counts)
        df == Strict([j \in 1..n_terms |-> Cardinality({d \in 1..n : counts[d][j] > 0})])
    IN  Strict([j \in 1..n_terms |->
                  IF smooth_idf THEN Ln(1 + n) - Ln(1 + df[j]) + 10
                  ELSE Ln(n) - Ln(df[j]) + 10])

\* One weight, in tenths: tf (sublinear: 1 + ln tf) times idf.
Weight(c, idf, sublinear_tf) ==
    IF c = 0 THEN 0
    ELSE ((IF sublinear_tf THEN 10 + Ln(c) ELSE 10 * c) * idf) \div 10

\* TfidfVectorizer(norm=None, ...).fit_transform(docs)
TfidfFitTransform(tf, docs) ==
    LET vocabulary == CountVocab(docs, FALSE, <<>>)
        n_terms    == Cardinality(DOMAIN vocabulary)
        counts     == CountMatrix(docs, vocabulary)
        idf        == Idf(counts, n_terms, tf.smooth_idf)
    IN  IF n_terms = 0
        THEN [ok |-> FALSE, vocabulary_ |-> vocabulary, idf_ |-> <<>>, matrix |-> <<>>]
        ELSE [ok |-> TRUE,
              vocabulary_ |-> vocabulary,
              idf_ |-> idf,
              matrix |-> Strict([d \in 1..Len(docs) |->
                            Strict([j \in 1..n_terms |->
                               Weight(counts[d][j],
                                      IF tf.use_idf THEN idf[j] ELSE 10,
                                      tf.sublinear_tf)])])]

\* sklearn.metrics.pairwise.cosine_similarity of one count row and one tf-idf
\* row, squared, in thousandths; a zero row has similarity 0.
Cosine(x, t) ==
    LET dot == SumSeq([j \in 1..Len(x) |-> x[j] * t[j]])
        nx  == SumSeq([j \in 1..Len(x) |-> x[j] * x[j]])
        nt  == SumSeq([j \in 1..Len(t) |-> t[j] * t[j]])
    IN  IF nx = 0 \/ nt = 0 THEN 0 ELSE (1000 * dot * dot) \div (nx * nt)

\* cosine_similarity(A, B); check_pairwise_arrays rejects rows of different widths.
SameWidth(A, B) == \A i \in 1..Len(A) : \A c \in 1..Len(B) : Len(A[i]) = Len(B[c])

CosineSimilarity(A, B) ==
    Strict([i \in 1..Len(A) |-> Strict([c \in 1..Len(B) |-> Cosine(A[i], B[c])])])

\* An argmax that returns the last maximal entry.
ArgmaxLast(row) == (CHOOSE c \in 1..Len(row) :
                       /\ \A d \in 1..Len(row) : row[d] <= row[c]
                       /\ \A d \in (c + 1)..Len(row) : row[d] < row[c]) - 1

\* numpy argmax of one row: the index (from 0) of the first maximal entry.
Argmax(row) == (CHOOSE c \in 1..Len(row) :
                   /\ \A d \in 1..Len(row) : row[d] <= row[c]
                   /\ \A d \in 1..(c - 1) : row[d] < row[c]) - 1

-----------------------------------------------------------------------------
(* SAXVSM *)

\* __init__ defaults
DefaultParams ==
    [n_bins |-> [isint |-> TRUE, val |-> 4], strategy |-> "quantile",
     alphabet |-> NoneValue, window_size |-> 4, window_step |-> 1,
     numerosity_reduction |-> TRUE, use_idf |-> TRUE, smooth_idf |-> FALSE,
     sublinear_tf |-> TRUE]

\* The attributes fit() sets, in the order it sets them.
FittedAttributes == {"classes_", "tfidf_", "vocabulary_", "idf_", "_tfidf", "_sax", "_bow"}

\* Values of the attributes while they are not set (never read by the code).
NoSax == [n_bins |-> [isint |-> TRUE, val |-> 0], strategy |-> "", alphabet |-> <<>>]
NoBow == [window_size |-> 0, window_step |-> 0, numerosity_reduction |-> FALSE]
NoTfidf == [vocabulary_ |-> <<>>]

\* X_bow[y_ind == classe]
RECURSIVE Select(_, _, _)
Select(X_bow, y_ind, classe) ==
    IF X_bow = <<>> THEN <<>>
    ELSE (IF Head(y_ind) = classe THEN <<Head(X_bow)>> ELSE <<>>)
         \o Select(Tail(X_bow), Tail(y_ind), classe)

\* {value: key for key, value in tfidf.vocabulary_.items()}
InvertVocabulary(vocabulary) ==
    StrictFcn([i \in {vocabulary[t] : t \in DOMAIN vocabulary} |->
                 CHOOSE t \in DOMAIN vocabulary : vocabulary[t] = i])

\* What the caller of fit told it, kept for the record of the call.
FitArgs(X, y) ==
    [shape_ok |-> CheckXy(X, y),
     y_distinct |-> Cardinality(Range(y)),
     y_integral |-> \A i \in 1..Len(y) : y[i] % 2 = 0]

NoArgs == [shape_ok |-> TRUE, y_distinct |-> 0, y_integral |-> TRUE]

\* fit(X, y) run on parameters p: where it stopped, the error it raised, and
\* the values it assigned on the way.
FitRun(p, X, y) ==
    LET classes == LabelClasses(y)
        y_ind == Strict([i \in 1..Len(y) |-> LabelIndex(classes, y[i])])
        n_classes == Len(classes)
        sax == [n_bins |-> p.n_bins, strategy |-> p.strategy, alphabet |-> p.alphabet]
        bow == [window_size |-> p.window_size, window_step |-> p.window_step,
                numerosity_reduction |-> p.numerosity_reduction]
        X_bow == BowTransform(bow, SaxTransform(sax, X))
        X_class == Strict([c \in 1..n_classes |-> Join(Select(X_bow, y_ind, c - 1))])
        tf == [use_idf |-> p.use_idf, smooth_idf |-> p.smooth_idf,
               sublinear_tf |-> p.sublinear_tf]
        fitted == TfidfFitTransform(tf, X_class)
        stop(where, error, cls) ==
            [where |-> where, error |-> error, classes_ |-> cls, X_class |-> <<>>,
             tfidf_ |-> <<>>, vocabulary_ |-> <<>>, idf_ |-> <<>>,
             _tfidf |-> NoTfidf, _sax |-> NoSax, _bow |-> NoBow]
    IN  IF ~ CheckXy(X, y) THEN stop("check_X_y", "InconsistentShape", <<>>)
        ELSE IF CheckParams(p) # "ok" THEN stop("_check_params", "InvalidParameter", <<>>)
        ELSE IF ~ CheckClassificationTargets(y)
             THEN stop("check_classification_targets", "InvalidTarget", <<>>)
        ELSE IF ~ SaxParamsOk(sax) THEN stop("sax", "InvalidParameter", classes)
        ELSE IF ~ fitted.ok THEN stop("tfidf", "EmptyVocabulary", classes)
        ELSE [where |-> "return", error |-> "", classes_ |-> classes, X_class |-> X_class,
              tfidf_ |-> fitted.matrix,
              vocabulary_ |-> InvertVocabulary(fitted.vocabulary_),
              idf_ |-> IF p.use_idf THEN fitted.idf_ ELSE NoneValue,
              _tfidf |-> [vocabulary_ |-> fitted.vocabulary_],
              _sax |-> sax, _bow |-> bow]

\* Line 121 is reached once the three validations have passed.
WritesClasses(r) == r.where \in {"sax", "tfidf", "return"}

\* Lines 138-147 are reached once the vectorizer has been fitted.
WritesAll(r) == r.where = "return"

\* A check_is_fitted that is content with any one of the attributes.
CheckIsFittedAny(present, attributes) == attributes \cap present # {}

\* check_is_fitted(self, attributes): every attribute must be set.
CheckIsFitted(present, attributes) == attributes \subseteq present

\* decision_function(X) on the instance as it is.
DecisionRun(X) ==
    LET X_bow == BowTransform(_bow, SaxTransform(_sax, X))
        vocabulary == CountVocab(X_bow, TRUE, _tfidf.vocabulary_)
        X_transformed == CountMatrix(X_bow, vocabulary)
    IN  IF ~ CheckIsFitted(has, {"vocabulary_", "tfidf_", "idf_", "_tfidf", "classes_"})
        THEN [where |-> "check_is_fitted", error |-> "NotFittedError",
              scores |-> <<>>, vocabulary |-> _tfidf.vocabulary_]
        ELSE IF ~ ({"_sax", "_bow", "_tfidf", "tfidf_"} \subseteq has)
        THEN [where |-> "self._sax", error |-> "AttributeError",
              scores |-> <<>>, vocabulary |-> _tfidf.vocabulary_]
        ELSE IF ~ SameWidth(X_transformed, tfidf_)
        THEN [where |-> "cosine_similarity", error |-> "ValueError",
              scores |-> <<>>, vocabulary |-> vocabulary]
        ELSE [where |-> "return", error |-> "",
              scores |-> CosineSimilarity(X_transformed, tfidf_),
              vocabulary |-> vocabulary]

\* The encoded indices returned as they are, without the inverse label mapping.
TakeLabelsRaw(classes, indices) == indices

\* self.classes_[indices]
TakeLabels(classes, indices) ==
    Strict([i \in 1..Len(indices) |-> classes[indices[i] + 1]])

\* predict(X): self.classes_ is read first, then decision_function is called,
\* then the argmax of each row indexes self.classes_.
PredictRun(X) ==
    LET d == DecisionRun(X)
        indices == Strict([i \in 1..Len(d.scores) |-> Argmax(d.scores[i])])
    IN  IF "classes_" \notin has
        THEN [where |-> "self.classes_", error |-> "AttributeError", scores |-> <<>>,
              result |-> <<>>, vocabulary |-> _tfidf.vocabulary_]
        ELSE IF d.error # ""
        THEN [where |-> d.where, error |-> d.error, scores |-> <<>>,
              result |-> <<>>, vocabulary |-> d.vocabulary]
        ELSE IF \E i \in 1..Len(indices) : indices[i] >= Len(classes_)
        THEN [where |-> "self.classes_[...]", error |-> "IndexError", scores |-> d.scores,
              result |-> <<>>, vocabulary |-> d.vocabulary]
        ELSE [where |-> "return", error |-> "", scores |-> d.scores,
              result |-> TakeLabels(classes_, indices), vocabulary |-> d.vocabulary]

-----------------------------------------------------------------------------
(* Inputs *)

\* The longest label sequence passed to fit.
MaxLabels == 2

Flat0 == <<0, 0, 0, 0>>
Flat10 == <<10, 10, 10, 10>>
ZigZag == <<0, 10, 0, 10>>
Step == <<0, 0, 10, 10>>

Toy == <<Flat0, Flat10>>
Mixed == <<ZigZag, Flat0>>
Three == <<ZigZag, Step, Flat10>>

TrainX == {Toy, Mixed, Three}
TestX == {Toy, Mixed}

\* Labels 0, 0.5 and 1.
LabelValues == {0, 1, 2}

TrainY == UNION {[1..n -> LabelValues] : n \in 1..MaxLabels}

UpperCase == <<97, 98, 65, 66>>

\* The constructor arguments tried: the defaults with one or two of them changed.
ParamSpace ==
    {DefaultParams,
     [DefaultParams EXCEPT !.n_bins = [isint |-> TRUE, val |-> 27]],
     [DefaultParams EXCEPT !.strategy = "cubic"],
     [DefaultParams EXCEPT !.alphabet = UpperCase],
     [DefaultParams EXCEPT !.window_size = 1],
     [DefaultParams EXCEPT !.window_size = 2, !.numerosity_reduction = FALSE],
     [DefaultParams EXCEPT !.use_idf = FALSE]}

NoCall == [op |-> "__init__", args |-> NoArgs, where |-> "return", error |-> "",
           result |-> <<>>, scores |-> <<>>, X_class |-> <<>>]

-----------------------------------------------------------------------------
(* The instance *)

InitWith(p) ==
    /\ params = p
    /\ has = {}
    /\ classes_ = <<>>
    /\ tfidf_ = <<>>
    /\ vocabulary_ = <<>>
    /\ idf_ = <<>>
    /\ _tfidf = NoTfidf
    /\ _sax = NoSax
    /\ _bow = NoBow
    /\ lifecycle = "new"
    /\ call = NoCall

Init == \E p \in ParamSpace : InitWith(p)

\* set_params(**p) / attribute assignment between calls
SetParams(p) ==
    /\ p # params
    /\ params' = p
    /\ call' = [NoCall EXCEPT !.op = "set_params"]
    /\ UNCHANGED <<fitted_state, lifecycle>>

\* fit(X, y); r is the run of the method body, evaluated once.
Fit(X, y) ==
    \E r \in {FitRun(params, X, y)} :
        /\ classes_' = IF WritesClasses(r) THEN r.classes_ ELSE classes_
        /\ tfidf_' = IF WritesAll(r) THEN r.tfidf_ ELSE tfidf_
        /\ vocabulary_' = IF WritesAll(r) THEN r.vocabulary_ ELSE vocabulary_
        /\ idf_' = IF WritesAll(r) THEN r.idf_ ELSE idf_
        /\ _tfidf' = IF WritesAll(r) THEN r._tfidf ELSE _tfidf
        /\ _sax' = IF WritesAll(r) THEN r._sax ELSE _sax
        /\ _bow' = IF WritesAll(r) THEN r._bow ELSE _bow
        /\ has' = has \cup (IF WritesClasses(r) THEN {"classes_"} ELSE {})
                      \cup (IF WritesAll(r) THEN FittedAttributes ELSE {})
        /\ lifecycle' = IF r.error = "" THEN "fitted"
                        ELSE IF lifecycle = "new" THEN "failed" ELSE lifecycle
        /\ call' = [op |-> "fit", args |-> FitArgs(X, y), where |-> r.where,
                    error |-> r.error, result |-> <<>>, scores |-> <<>>,
                    X_class |-> r.X_class]
        /\ UNCHANGED params

\* decision_function(X).  The vectorizer built at line 168 is handed the dict
\* self._tfidf.vocabulary_ itself, so what it does to it shows on self._tfidf.
DecisionFunction(X) ==
    \E d \in {DecisionRun(X)} :
        /\ _tfidf' = [_tfidf EXCEPT !.vocabulary_ = d.vocabulary]
        /\ call' = [op |-> "decision_function", args |-> NoArgs, where |-> d.where,
                    error |-> d.error, result |-> <<>>, scores |-> d.scores,
                    X_class |-> <<>>]
        /\ UNCHANGED <<params, has, classes_, tfidf_, vocabulary_, idf_, _sax, _bow,
                       lifecycle>>

\* predict(X)
Predict(X) ==
    \E r \in {PredictRun(X)} :
        /\ _tfidf' = [_tfidf EXCEPT !.vocabulary_ = r.vocabulary]
        /\ call' = [op |-> "predict", args |-> NoArgs, where |-> r.where,
                    error |-> r.error, result |-> r.result, scores |-> r.scores,
                    X_class |-> <<>>]
        /\ UNCHANGED <<params, has, classes_, tfidf_, vocabulary_, idf_, _sax, _bow,
                       lifecycle>>

Next ==
    \/ \E p \in ParamSpace : SetParams(p)
    \/ \E X \in TrainX, y \in TrainY : Fit(X, y)
    \/ \E X \in TestX : DecisionFunction(X)
    \/ \E X \in TestX : Predict(X)

Spec == Init /\ [][Next]_vars

-----------------------------------------------------------------------------
(* The n_bins check: instances built with every n_bins from 0 to 28 and with a
   float n_bins, refitted after n_bins was set to an invalid value. *)

NBinsDomain ==
    {[isint |-> TRUE, val |-> v] : v \in 0..28} \cup {[isint |-> FALSE, val |-> 4]}

NBinsChanges ==
    {[DefaultParams EXCEPT !.n_bins = nb] :
        nb \in {[isint |-> TRUE, val |-> 1], [isint |-> TRUE, val |-> 27],
                [isint |-> FALSE, val |-> 4]}}

InitNBins == \E nb \in NBinsDomain : InitWith([DefaultParams EXCEPT !.n_bins = nb])

NextNBins ==
    \/ \E p \in NBinsChanges : SetParams(p)
    \/ \E X \in TrainX, y \in TrainY : Fit(X, y)
    \/ \E X \in TestX : DecisionFunction(X)
    \/ \E X \in TestX : Predict(X)

SpecNBins == InitNBins /\ [][NextNBins]_vars

-----------------------------------------------------------------------------
(* The toy dataset: the constant series 0,0,0,0 in one class and 10,10,10,10
   in the other, n_bins = 2, every other parameter free. *)

ToyLabels == <<2, 4>>

ToyParamSpace ==
    [n_bins : {[isint |-> TRUE, val |-> 2]},
     strategy : Strategies \cup {"cubic"},
     alphabet : {NoneValue},
     window_size : {1, 2, 4},
     window_step : {1, 2},
     numerosity_reduction : BOOLEAN,
     use_idf : BOOLEAN,
     smooth_idf : BOOLEAN,
     sublinear_tf : BOOLEAN]

InitToy == \E p \in ToyParamSpace : InitWith(p)

NextToy ==
    \/ Fit(Toy, ToyLabels)
    \/ DecisionFunction(Toy)
    \/ Predict(Toy)

SpecToy == InitToy /\ [][NextToy]_vars

-----------------------------------------------------------------------------
(* Properties *)

Inference == {"predict", "decision_function"}

\* The fitted artifacts the caller can read.
Visible == {"classes_", "tfidf_", "vocabulary_", "idf_"}

NBinsValid(p) == p.n_bins.isint /\ p.n_bins.val \in 2..26

\* The words of the per-class documents of the last fit.
FitWords == UNION {Range(SplitWords(call.X_class[c], <<>>)) : c \in 1..Len(call.X_class)}

VocabularyTerms == {vocabulary_[i] : i \in DOMAIN vocabulary_}

\* C1 (as claimed): predict on an instance on which fit was never called fails
\* with NotFittedError.
C1_PredictNeverFitted ==
    (call.op = "predict" /\ lifecycle = "new") => call.error = "NotFittedError"

\* C2: while no fit has succeeded on the instance, decision_function fails with
\* NotFittedError and computes no scores, whatever failed fits left behind.
C2_DecisionFunctionGated ==
    (call.op = "decision_function" /\ lifecycle # "fitted")
        => (call.error = "NotFittedError" /\ call.scores = <<>>)

C2_Witness ==
    /\ call.op = "decision_function"
    /\ lifecycle = "failed"
    /\ "classes_" \in has
    /\ call.error = "NotFittedError"

\* C3 (as claimed): a fit call that fails writes none of the visible artifacts:
\* the ones that were not set stay unset, the ones that were set keep their values.
C3_FailedFitWritesNothing ==
    [][(call'.op = "fit" /\ call'.error # "")
          => /\ has' \cap Visible = has \cap Visible
             /\ UNCHANGED <<classes_, tfidf_, vocabulary_, idf_>>]_vars

\* C4 (as claimed): a fit that passes the shape and n_bins checks with fewer than
\* two distinct labels in y fails with InvalidTarget.
C4_SingleClassRejected ==
    (call.op = "fit" /\ call.args.shape_ok /\ NBinsValid(params)
                     /\ call.args.y_distinct < 2)
        => call.error = "InvalidTarget"

\* C4 (amended): a fit that passes the shape and n_bins checks fails with
\* InvalidTarget exactly when y holds a non-integral (continuous) label, and that
\* call writes nothing on the instance; one distinct label is no reason to fail.
C4_ContinuousTargetRejected ==
    [][(call'.op = "fit" /\ call'.args.shape_ok /\ NBinsValid(params'))
          => IF call'.args.y_integral
             THEN call'.error # "InvalidTarget"
             ELSE /\ call'.error = "InvalidTarget"
                  /\ call'.where = "check_classification_targets"
                  /\ UNCHANGED fitted_state]_vars

C4_Witness ==
    /\ call.op = "fit"
    /\ call.args.shape_ok
    /\ ~ call.args.y_integral
    /\ call.error = "InvalidTarget"
    /\ lifecycle = "fitted"

\* C5: a fit with shape-consistent X and y fails with InvalidParameter in the
\* n_bins check when n_bins is not an integer or not in 2..26, before any fitted
\* attribute is written; every integer n_bins in 2..26 passes the n_bins check.
C5_NBinsCheck ==
    [][(call'.op = "fit" /\ call'.args.shape_ok)
          => IF NBinsValid(params')
             THEN call'.where # "_check_params"
             ELSE /\ call'.error = "InvalidParameter"
                  /\ call'.where = "_check_params"
                  /\ UNCHANGED fitted_state]_vars

C5_Witness ==
    /\ call.op = "fit"
    /\ call.args.shape_ok
    /\ params.n_bins = [isint |-> TRUE, val |-> 27]
    /\ call.error = "InvalidParameter"
    /\ lifecycle = "fitted"

\* C6: predict and decision_function, failing or not, change no fitted attribute;
\* the vocabulary of the fitted vectorizer does not grow.
C6_InferenceWritesNothing ==
    [][call'.op \in Inference => UNCHANGED fitted_state]_vars

\* A decision_function that returned a sample with no word of the vocabulary.
C6_Witness ==
    /\ call.op = "decision_function"
    /\ call.error = ""
    /\ \E i \in 1..Len(call.scores) : \A c \in 1..Len(call.scores[i]) : call.scores[i][c] = 0

\* C7: each label predict returns is the class label at the position of the
\* first maximal entry of the sample's row of scores.
C7_PredictIsFirstArgmax ==
    (call.op = "predict" /\ call.error = "")
        => /\ Len(call.result) = Len(call.scores)
           /\ \A i \in 1..Len(call.scores) :
                 \E c \in 1..Len(call.scores[i]) :
                    /\ call.result[i] = classes_[c]
                    /\ \A d \in 1..Len(call.scores[i]) : call.scores[i][d] <= call.scores[i][c]
                    /\ \A d \in 1..(c - 1) : call.scores[i][d] < call.scores[i][c]

\* A prediction for a sample that two classes match equally well.
C7_Witness ==
    /\ call.op = "predict"
    /\ call.error = ""
    /\ lifecycle = "fitted"
    /\ \E i \in 1..Len(call.scores) :
          /\ Len(call.scores[i]) = 2
          /\ call.scores[i][1] = call.scores[i][2]
          /\ call.scores[i][1] > 0
          /\ call.result[i] = classes_[1]

\* C8 (as claimed): after a successful fit the vocabulary is exactly the set of
\* distinct words of the per-class documents, indexed 0..n_vocab-1.
C8_VocabularyIsWordSet ==
    (call.op = "fit" /\ call.error = "")
        => /\ VocabularyTerms = FitWords
           /\ DOMAIN vocabulary_ = 0..(Cardinality(FitWords) - 1)

C10_RowsMatchClasses ==
    (call.op \in Inference /\ call.error = "") => Len(tfidf_) = Len(classes_)

====
